---- MODULE Spec2Model ----
(***************************************************************************)
(* Model of the man-in-the-middle proxy of src/mitm/mitm.py.               *)
(*                                                                         *)
(* One MITM object serves every connection: asyncio.start_server calls     *)
(* self.client_connect for each accepted socket (mitm.py:64-66), so the    *)
(* fields self.client, self.server, self.ssl, self.request and             *)
(* self.server_info are single variables here, while the locals of each    *)
(* coroutine (reader, writer, event, host, port, c_reader, ...) are        *)
(* functions of the task.  A task takes one step per stretch of code       *)
(* between two suspension points (reader.read, start_tls, open_connection, *)
(* wait_closed).  Middleware hooks are the no-suspension hooks of a plain  *)
(* `async def`, so a dispatch loop runs inside the step that reaches it.   *)
(*                                                                         *)
(* Bytes are sequences of tokens <<type, origin>>; the origin is the       *)
(* connection whose peer (or whose task) produced the token.  A host name  *)
(* is the number of the connection that asked for it.                      *)
(***************************************************************************)
EXTENDS Integers, Sequences, FiniteSets, TLC

\* ---------------------------------------------------------------- bounds
NConn == 2          \* accepted connections
NMid == 2           \* configured middlewares (config.middlewares)
BufferSize == 2     \* config.buffer_size, in tokens
MaxFaults == 1      \* transport faults (peer resets) the environment injects
MaxRelays == 1      \* relays under way at once: a pending open_connection
                    \* returns only when fewer are

\* -------------------------------------------------------------- constants
HTTP_PORT == 80

Conns == 1..NConn
Flows == {"CLIENT_TO_SERVER", "SERVER_TO_CLIENT"}
Kinds == {"connect", "get", "nohost", "junk", "partial", "silent"}
MwModes == {"noop", "tag"}
Hooks == {"client_connected", "client_data", "server_connected",
          "server_data", "client_disconnected", "server_disconnected"}

Min(a, b) == IF a < b THEN a ELSE b

\* The port a client names in the target of its CONNECT request.
TargetPort(host) == 440 + host

TrC(i) == <<"c", i>>
TrS(i) == <<"s", i>>
TrIds == {TrC(i) : i \in Conns} \cup {TrS(i) : i \in Conns}

NoTransport ==
    [open |-> FALSE, out |-> <<>>, eof |-> FALSE, err |-> FALSE,
     closed |-> FALSE, wr |-> <<>>, rd |-> <<>>, tls |-> FALSE,
     dest |-> <<0, 0>>, stay |-> FALSE]

\* What the client of connection c sends before it closes its sending side.
\* A request is a request line (CONNECT, GET11, GET10: the method and the
\* HTTP version) and a header block: HOST, a block that holds a Host header,
\* or END, a block that holds none.
\* The moment of that close is not a step of its own: the proxy learns of it
\* when a read returns b"", and until some read does, the peer may as well
\* still be open.
Script(kind, c) ==
    CASE kind = "connect" -> << <<"CONNECT", c>>, <<"HOST", c>> >>
      [] kind = "get"     -> << <<"GET11", c>>, <<"HOST", c>>, <<"DATA", c>> >>
      [] kind = "nohost"  -> << <<"GET10", c>>, <<"END", c>> >>
      [] kind = "junk"    -> << <<"JUNK", c>> >>
      [] kind = "partial" -> << <<"GET11", c>> >>
      [] kind = "silent"  -> << >>

\* What a TLS client sends through the tunnel once the handshake is done.
Tunnelled(c) == << <<"DATA", c>> >>

\* What the destination server sends.
Response(s) == << <<"RESP", s>> >>

OK200(t) == << <<"OK200", t>> >>

\* ------------------------------------------------------------ h11 parser
NoEvent == [type |-> "none", method |-> "", target |-> 0, host |-> 0]
NeedData == [type |-> "NEED_DATA", method |-> "", target |-> 0, host |-> 0]
ProtocolError == [type |-> "RemoteProtocolError", method |-> "", target |-> 0, host |-> 0]
ConnectionClosed == [type |-> "ConnectionClosed", method |-> "", target |-> 0, host |-> 0]

Blocks == {"HOST", "END"}
HasEnd(buf) == \E i \in 1..Len(buf) : buf[i][1] \in Blocks
EndAt(buf) == CHOOSE i \in 1..Len(buf) :
                  buf[i][1] \in Blocks /\ \A j \in 1..(i - 1) : buf[j][1] \notin Blocks
\* The value of the Host header of the header block, 0 when there is none.
HostHeader(buf) ==
    IF buf[EndAt(buf)][1] = "HOST" THEN buf[EndAt(buf)][2] ELSE 0

\* conn.next_event() of an h11.Connection(h11.SERVER) that was fed buf, and
\* an end-of-stream when closed.
H11NextEvent(buf, closed) ==
    IF buf = <<>>
    THEN IF closed THEN ConnectionClosed ELSE NeedData
    ELSE IF buf[1][1] \notin {"CONNECT", "GET11", "GET10"}
    THEN ProtocolError
    ELSE IF ~HasEnd(buf)
    THEN IF closed THEN ProtocolError ELSE NeedData
    ELSE IF buf[1][1] # "GET10" /\ HostHeader(buf) = 0
    THEN ProtocolError
    ELSE [type |-> "Request",
          method |-> IF buf[1][1] = "CONNECT" THEN "CONNECT" ELSE "GET",
          target |-> buf[1][2],
          host |-> HostHeader(buf)]

\* event.target.split(b":") and the decoding of its two halves.
ConnectTarget(event) == <<event.target, TargetPort(event.target)>>

\* The Host header lookup; the destination port of a plain request is 80.
HostTarget(event) == <<event.host, HTTP_PORT>>

\* ------------------------------------------------------------ transports
\* A transport fails when the peer resets it.  The proxy learns of a reset at
\* its next read or flush on the transport, so the reset is taken there.
CanFault(T, tr, n) ==
    n < MaxFaults /\ T[tr].open /\ ~T[tr].err /\ ~T[tr].closed
Fault(T, tr) == [T EXCEPT ![tr].err = TRUE]
FaultCount(T, tr, n) == IF T[tr].err THEN n ELSE n + 1

\* What `await reader.read(n)` does: it raises on a failed transport, returns
\* bytes, or returns b"" at end-of-stream; it does not return while a peer
\* that keeps its connection open (stay) has nothing to send.  A transport closed on this side
\* stops receiving and its reader is fed an end-of-stream (transport.close ->
\* connection_lost -> feed_eof), so closing a writer ends the reads of the
\* reader that shares its transport.
ReadRaises(T, tr, n) == T[tr].open /\ (T[tr].err \/ CanFault(T, tr, n))
ReadHasData(T, tr) ==
    T[tr].open /\ ~T[tr].err /\ ~T[tr].closed /\ T[tr].out # <<>>
ReadIsEof(T, tr) ==
    /\ T[tr].open /\ ~T[tr].err
    /\ T[tr].closed \/ (T[tr].out = <<>> /\ ~T[tr].stay)
\* The read that returns b"": eof records that the peer's own close was seen.
SeeEof(T, tr) == [T EXCEPT ![tr].eof = @ \/ ~T[tr].closed]
ChunkLens(T, tr) == 1..Min(BufferSize, Len(T[tr].out))

Take(T, tr, n) ==
    [T EXCEPT ![tr].out = SubSeq(@, n + 1, Len(@)),
              ![tr].rd = @ \o SubSeq(T[tr].out, 1, n)]

\* writer.write(data): the bytes handed to the writer.
Write(T, tr, data) == [T EXCEPT ![tr].wr = @ \o data]

\* await writer.drain() goes through: the transport is up.  A TLS transport
\* is shut down as a whole when its peer sends end-of-stream.
Writable(T, tr) ==
    T[tr].open /\ ~T[tr].closed /\ ~T[tr].err /\ ~(T[tr].tls /\ T[tr].eof)

\* await writer.drain() raises: the transport is down, or fails now.
DrainRaises(T, tr, n) == ~Writable(T, tr) \/ CanFault(T, tr, n)
AfterDrainRaises(T, tr) == IF Writable(T, tr) THEN Fault(T, tr) ELSE T
DrainFaultCount(T, tr, n) == IF Writable(T, tr) THEN n + 1 ELSE n

\* A close that leaves the transport as it is.
CloseNothing(T, tr) == T
\* writer.close(): the transport is closed as a whole, both directions.
Close(T, tr) == [T EXCEPT ![tr].closed = TRUE]

\* An exception leaves client_connect.  The coroutine has no handler; whether
\* the stream machinery then closes the accepted transport depends on the
\* Python version (rt).
Crash(T, t, rt) == IF rt THEN Close(T, TrC(t)) ELSE T

\* ----------------------------------------------------------------- state
VARIABLES
    mwMode,          \* what the configured middlewares do with data
    mwFault,         \* the hook the configured middlewares raise in, or "none"
    keepOpen,        \* the peers that never close: "client", "server" or "none"
    selfClient,      \* self.client: the connection whose (reader, writer) it holds
    selfServer,      \* self.server: the task whose upstream (reader, writer) it holds
    selfSsl,         \* self.ssl
    selfRequest,     \* self.request
    selfServerInfo,  \* self.server_info
    pc,              \* where each connection's client_connect task stands
    fpc,             \* where each of its two forward coroutines stands
    cause,           \* why a task ended, "none" while it runs
    fcause,          \* why a forward coroutine left its loop
    kind,            \* what each accepted client set out to send
    h11buf,          \* bytes fed to the task's h11.Connection
    ev,              \* local `event` of client_request
    hs,              \* local (reader, writer) of client_tls_handshake
    dw,              \* local writer of client_disconnect
    dest,            \* host, port handed to asyncio.open_connection
    sslArg,          \* ssl= handed to asyncio.open_connection
    attempts,        \* calls of asyncio.open_connection made by the task
    rc,              \* local c_reader, c_writer of relay
    rs,              \* local s_reader, s_writer of relay
    firstWrite,      \* what relay wrote before it started the forward loops
    tp,              \* the transports
    hk,              \* dispatches of each middleware hook that returned
    lastChain,       \* the task's latest dispatch of each data hook
    evSet,           \* the asyncio.Event handed to forward has been set
    faults           \* transport faults injected so far

vars == <<mwMode, mwFault, keepOpen, selfClient, selfServer, selfSsl, selfRequest, selfServerInfo,
          pc, fpc, cause, fcause, kind, h11buf, ev, hs, dw, dest, sslArg, attempts,
          rc, rs, firstWrite, tp, hk, lastChain, evSet, faults>>

selfVars == <<selfClient, selfServer, selfSsl, selfRequest, selfServerInfo>>
connectVars == <<dest, sslArg, attempts>>
relayVars == <<rc, rs, firstWrite, fpc, fcause, evSet>>

\* ----------------------------------------------------------- middlewares
\* A walk of self.middlewares from the last registered to the first.
MwOrderReversed(k) == NMid + 1 - k
\* The k-th middleware a dispatch loop calls: `for middleware in
\* self.middlewares` walks the list in registration order.
MwOrder(k) == k

\* A dispatch loop over the hook raises: a middleware's hook does.
HookRaises(hook) == mwFault = hook

\* middleware.client_data / middleware.server_data of middleware i.
MwData(hook, i, x) ==
    IF mwMode = "tag" THEN Append(x, <<hook, i>>) ELSE x

\* The calls of one dispatch loop over a data hook, from the k-th on.
RECURSIVE Dispatch(_, _, _)
Dispatch(hook, k, x) ==
    IF k > NMid THEN <<>>
    ELSE LET i == MwOrder(k)
             y == MwData(hook, i, x)
         IN  <<[mw |-> i, inp |-> x, out |-> y]>> \o Dispatch(hook, k + 1, y)

\* What the loop leaves in `data` (forward) or in self.request (client_request).
ChainOut(trace, x) == IF trace = <<>> THEN x ELSE trace[Len(trace)].out

Dispatched(hook, x) ==
    LET trace == Dispatch(hook, 1, x)
    IN  [hook |-> hook, inp |-> x, trace |-> trace, kept |-> ChainOut(trace, x)]

DataHooks == {"client_data", "server_data"}

NoChain == [hook |-> "none", inp |-> <<>>, trace |-> <<>>, kept |-> <<>>]

NoReplay == [started |-> FALSE, replayed |-> FALSE, data |-> <<>>]

NoHooks == [client_connected |-> 0, client_data |-> 0, server_connected |-> 0,
            server_data |-> 0, client_disconnected |-> 0,
            server_disconnected |-> 0]

\* A proxy that dispatches the data and disconnected hooks only.
FiredUnlessConnected(h, t, hook) ==
    IF hook \in {"client_connected", "server_connected"} THEN h
    ELSE [h EXCEPT ![t][hook] = @ + 1]
\* The dispatch loop over a hook has called every middleware's hook.
Fired(h, t, hook) == [h EXCEPT ![t][hook] = @ + 1]

\* ------------------------------------------------------------------ Init
\* The state after MITM.__init__, with n transport faults counted already.
Start(n) ==
    /\ mwMode \in MwModes
    /\ mwFault \in {"none"} \cup Hooks
    /\ mwFault # "none" => mwMode = "noop"
    /\ keepOpen \in {"none", "client", "server"}
    /\ keepOpen # "none" => (mwMode = "noop" /\ mwFault = "none")
    /\ selfClient = 0
    /\ selfServer = 0
    /\ selfSsl = FALSE
    /\ selfRequest = <<>>
    /\ selfServerInfo = <<0, 0>>
    /\ pc = [t \in Conns |-> "idle"]
    /\ fpc = [t \in Conns |-> [f \in Flows |-> "none"]]
    /\ cause = [t \in Conns |-> "none"]
    /\ fcause = [t \in Conns |-> [f \in Flows |-> "none"]]
    /\ kind = [t \in Conns |-> "none"]
    /\ h11buf = [t \in Conns |-> <<>>]
    /\ ev = [t \in Conns |-> NoEvent]
    /\ hs = [t \in Conns |-> 0]
    /\ dw = [t \in Conns |-> 0]
    /\ dest = [t \in Conns |-> <<0, 0>>]
    /\ sslArg = [t \in Conns |-> FALSE]
    /\ attempts = [t \in Conns |-> 0]
    /\ rc = [t \in Conns |-> 0]
    /\ rs = [t \in Conns |-> 0]
    /\ firstWrite = [t \in Conns |-> NoReplay]
    /\ tp = [tr \in TrIds |-> NoTransport]
    /\ hk = [t \in Conns |-> NoHooks]
    /\ lastChain = [t \in Conns |-> [h \in DataHooks |-> NoChain]]
    /\ evSet = [t \in Conns |-> FALSE]
    /\ faults = n

Init == Start(0)

\* ------------------------------------------------------- client_connect
\* asyncio.start_server accepts a socket and runs client_connect up to the
\* first read of client_request.
Accept(t) ==
    /\ pc[t] = "idle"
    /\ \A u \in Conns : u < t => pc[u] # "idle"
    /\ ~HookRaises("client_connected")
    /\ \E k \in Kinds :
          /\ kind' = [kind EXCEPT ![t] = k]
          /\ tp' = [tp EXCEPT ![TrC(t)] =
                        [NoTransport EXCEPT !.open = TRUE, !.out = Script(k, t),
                                            !.stay = (keepOpen = "client")]]
    /\ selfClient' = t
    /\ hk' = Fired(hk, t, "client_connected")
    /\ pc' = [pc EXCEPT ![t] = "request"]
    /\ UNCHANGED <<mwMode, mwFault, keepOpen, selfServer, selfSsl, selfRequest, selfServerInfo,
                   cause, h11buf, ev, hs, dw, connectVars, relayVars, lastChain,
                   faults>>

\* The same, but a client_connected hook raises: client_request is not
\* reached.
AcceptHookError(t) ==
    /\ pc[t] = "idle"
    /\ \A u \in Conns : u < t => pc[u] # "idle"
    /\ HookRaises("client_connected")
    /\ \E k \in Kinds, rt \in BOOLEAN :
          /\ kind' = [kind EXCEPT ![t] = k]
          /\ tp' = Crash([tp EXCEPT ![TrC(t)] =
                        [NoTransport EXCEPT !.open = TRUE, !.out = Script(k, t),
                                            !.stay = (keepOpen = "client")]],
                        t, rt)
    /\ selfClient' = t
    /\ pc' = [pc EXCEPT ![t] = "failed"]
    /\ cause' = [cause EXCEPT ![t] = "hook"]
    /\ UNCHANGED <<mwMode, mwFault, keepOpen, selfServer, selfSsl, selfRequest,
                   selfServerInfo, h11buf, ev, hs, dw, connectVars, relayVars, hk,
                   lastChain, faults>>

\* ------------------------------------------------------- client_request
\* The outcomes of `await reader.read(self.config.buffer_size)` that return:
\* a chunk of at most BufferSize tokens, or b"" at end-of-stream.
Reads(tr) ==
    {[data |-> SubSeq(tp[tr].out, 1, n), T |-> Take(tp, tr, n)] :
        n \in IF ReadHasData(tp, tr) THEN ChunkLens(tp, tr) ELSE {}}
    \cup (IF ReadIsEof(tp, tr) THEN {[data |-> <<>>, T |-> SeeEof(tp, tr)]} ELSE {})

\* conn.next_event() after conn.receive_data(data).
EventAfter(t, data) == H11NextEvent(h11buf[t] \o data, data = <<>>)

\* The read loop goes round: the request is not complete yet.
ReadNeedData(t) ==
    /\ pc[t] = "request"
    /\ \E r \in Reads(TrC(t)) :
          /\ EventAfter(t, r.data).type = "NEED_DATA"
          /\ h11buf' = [h11buf EXCEPT ![t] = @ \o r.data]
          /\ selfRequest' = selfRequest \o r.data
          /\ tp' = r.T
    /\ UNCHANGED <<mwMode, mwFault, keepOpen, selfClient, selfServer, selfSsl, selfServerInfo, pc,
                   cause, kind, ev, hs, dw, connectVars, relayVars, hk, lastChain,
                   faults>>

\* conn.next_event() raises h11.RemoteProtocolError: the bytes are no HTTP
\* request, or the client closed in the middle of one.
ReadMalformed(t) ==
    /\ pc[t] = "request"
    /\ \E r \in Reads(TrC(t)), rt \in BOOLEAN :
          /\ EventAfter(t, r.data).type = "RemoteProtocolError"
          /\ h11buf' = [h11buf EXCEPT ![t] = @ \o r.data]
          /\ selfRequest' = selfRequest \o r.data
          /\ tp' = Crash(r.T, t, rt)
          /\ cause' = [cause EXCEPT ![t] =
                          IF r.data = <<>> THEN "closed_early" ELSE "malformed"]
    /\ pc' = [pc EXCEPT ![t] = "failed"]
    /\ UNCHANGED <<mwMode, mwFault, keepOpen, selfClient, selfServer, selfSsl, selfServerInfo,
                   kind, ev, hs, dw, connectVars, relayVars, hk, lastChain, faults>>

\* reader.read raises: the client transport has failed.
ReadRequestError(t) ==
    /\ pc[t] = "request"
    /\ ReadRaises(tp, TrC(t), faults)
    /\ \E rt \in BOOLEAN : tp' = Crash(Fault(tp, TrC(t)), t, rt)
    /\ faults' = FaultCount(tp, TrC(t), faults)
    /\ pc' = [pc EXCEPT ![t] = "failed"]
    /\ cause' = [cause EXCEPT ![t] = "transport"]
    /\ UNCHANGED <<mwMode, mwFault, keepOpen, selfVars, kind, h11buf, ev, hs, dw, connectVars,
                   relayVars, hk, lastChain>>

\* A proxy that sets self.ssl when it enters client_tls_handshake.
SslSetFirst(ssl) == TRUE
\* self.ssl while client_tls_handshake runs: `self.ssl = True` comes after
\* the call has returned, so the flag is what it was.
SslInHandshake(ssl) == ssl

\* A CONNECT request is complete: the middlewares see self.request, then
\* client_tls_handshake writes the 200 response and starts the handshake.
RequestConnect(t) ==
    /\ pc[t] = "request"
    /\ \E r \in Reads(TrC(t)) :
          LET e == EventAfter(t, r.data)
              ch == Dispatched("client_data", selfRequest \o r.data)
              w == TrC(selfClient)
          IN  /\ e.type = "Request" /\ e.method = "CONNECT"
              /\ Writable(r.T, w)
              /\ ~HookRaises("client_data")
              /\ h11buf' = [h11buf EXCEPT ![t] = @ \o r.data]
              /\ ev' = [ev EXCEPT ![t] = e]
              /\ selfRequest' = ch.kept
              /\ lastChain' = [lastChain EXCEPT ![t][ch.hook] = ch]
              /\ tp' = Write(r.T, w, OK200(t))
    /\ hs' = [hs EXCEPT ![t] = selfClient]
    /\ selfSsl' = SslInHandshake(selfSsl)
    /\ hk' = Fired(hk, t, "client_data")
    /\ pc' = [pc EXCEPT ![t] = "tls"]
    /\ UNCHANGED <<mwMode, mwFault, keepOpen, selfClient, selfServer, selfServerInfo,
                   cause, kind, dw, connectVars, relayVars, faults>>

\* The same, but the transport self.client names by now is down: drain raises.
RequestConnectWriteError(t) ==
    /\ pc[t] = "request"
    /\ \E r \in Reads(TrC(t)), rt \in BOOLEAN :
          LET e == EventAfter(t, r.data)
              ch == Dispatched("client_data", selfRequest \o r.data)
              w == TrC(selfClient)
          IN  /\ e.type = "Request" /\ e.method = "CONNECT"
              /\ DrainRaises(r.T, w, faults)
              /\ ~HookRaises("client_data")
              /\ h11buf' = [h11buf EXCEPT ![t] = @ \o r.data]
              /\ ev' = [ev EXCEPT ![t] = e]
              /\ selfRequest' = ch.kept
              /\ lastChain' = [lastChain EXCEPT ![t][ch.hook] = ch]
              /\ tp' = Crash(AfterDrainRaises(Write(r.T, w, OK200(t)), w), t, rt)
              /\ faults' = DrainFaultCount(r.T, w, faults)
    /\ hs' = [hs EXCEPT ![t] = selfClient]
    /\ selfSsl' = SslInHandshake(selfSsl)
    /\ hk' = Fired(hk, t, "client_data")
    /\ pc' = [pc EXCEPT ![t] = "failed"]
    /\ cause' = [cause EXCEPT ![t] = "tls"]
    /\ UNCHANGED <<mwMode, mwFault, keepOpen, selfClient, selfServer, selfServerInfo,
                   kind, dw, connectVars, relayVars>>

\* A request that is not CONNECT is complete.  `elif not self.ssl` takes the
\* destination from the Host header; with self.ssl set nothing is assigned.
\* server_connect then reads self.server_info and calls open_connection.
RequestPlain(t) ==
    /\ pc[t] = "request"
    /\ \E r \in Reads(TrC(t)) :
          LET e == EventAfter(t, r.data)
              ch == Dispatched("client_data", selfRequest \o r.data)
              info == IF ~selfSsl THEN HostTarget(e) ELSE selfServerInfo
          IN  /\ e.type = "Request" /\ e.method # "CONNECT"
              /\ selfSsl \/ e.host # 0
              /\ ~HookRaises("client_data")
              /\ h11buf' = [h11buf EXCEPT ![t] = @ \o r.data]
              /\ ev' = [ev EXCEPT ![t] = e]
              /\ selfRequest' = ch.kept
              /\ lastChain' = [lastChain EXCEPT ![t][ch.hook] = ch]
              /\ tp' = r.T
              /\ selfServerInfo' = info
              /\ dest' = [dest EXCEPT ![t] = info]
    /\ sslArg' = [sslArg EXCEPT ![t] = selfSsl]
    /\ attempts' = [attempts EXCEPT ![t] = @ + 1]
    /\ hk' = Fired(hk, t, "client_data")
    /\ pc' = [pc EXCEPT ![t] = "connecting"]
    /\ UNCHANGED <<mwMode, mwFault, keepOpen, selfClient, selfServer, selfSsl, cause, kind, hs, dw,
                   relayVars, faults>>

\* The request has no Host header: next(filter(...)) raises StopIteration.
RequestNoHost(t) ==
    /\ pc[t] = "request"
    /\ \E r \in Reads(TrC(t)), rt \in BOOLEAN :
          LET e == EventAfter(t, r.data)
              ch == Dispatched("client_data", selfRequest \o r.data)
          IN  /\ e.type = "Request" /\ e.method # "CONNECT"
              /\ ~selfSsl /\ e.host = 0
              /\ ~HookRaises("client_data")
              /\ h11buf' = [h11buf EXCEPT ![t] = @ \o r.data]
              /\ ev' = [ev EXCEPT ![t] = e]
              /\ selfRequest' = ch.kept
              /\ lastChain' = [lastChain EXCEPT ![t][ch.hook] = ch]
              /\ tp' = Crash(r.T, t, rt)
    /\ hk' = Fired(hk, t, "client_data")
    /\ pc' = [pc EXCEPT ![t] = "failed"]
    /\ cause' = [cause EXCEPT ![t] = "no_host"]
    /\ UNCHANGED <<mwMode, mwFault, keepOpen, selfClient, selfServer, selfSsl, selfServerInfo,
                   kind, hs, dw, connectVars, relayVars, faults>>

\* The client closed before it sent a byte: the event is ConnectionClosed and
\* client_disconnect closes the writer self.client names.
RequestClosed(t) ==
    /\ pc[t] = "request"
    /\ \E r \in Reads(TrC(t)) :
          LET e == EventAfter(t, r.data)
              ch == Dispatched("client_data", selfRequest \o r.data)
          IN  /\ e.type = "ConnectionClosed"
              /\ ~HookRaises("client_data")
              /\ ev' = [ev EXCEPT ![t] = e]
              /\ selfRequest' = ch.kept
              /\ lastChain' = [lastChain EXCEPT ![t][ch.hook] = ch]
              /\ tp' = Close(r.T, TrC(selfClient))
    /\ dw' = [dw EXCEPT ![t] = selfClient]
    /\ hk' = Fired(hk, t, "client_data")
    /\ pc' = [pc EXCEPT ![t] = "closing"]
    /\ cause' = [cause EXCEPT ![t] = "closed_early"]
    /\ UNCHANGED <<mwMode, mwFault, keepOpen, selfClient, selfServer, selfSsl, selfServerInfo,
                   kind, h11buf, hs, connectVars, relayVars, faults>>

\* The read loop is left with an event, and a client_data hook raises on
\* self.request: the event is not looked at.
RequestHookError(t) ==
    /\ pc[t] = "request"
    /\ HookRaises("client_data")
    /\ \E r \in Reads(TrC(t)), rt \in BOOLEAN :
          LET e == EventAfter(t, r.data)
          IN  /\ e.type \in {"Request", "ConnectionClosed"}
              /\ h11buf' = [h11buf EXCEPT ![t] = @ \o r.data]
              /\ ev' = [ev EXCEPT ![t] = e]
              /\ selfRequest' = selfRequest \o r.data
              /\ tp' = Crash(r.T, t, rt)
    /\ pc' = [pc EXCEPT ![t] = "failed"]
    /\ cause' = [cause EXCEPT ![t] = "hook"]
    /\ UNCHANGED <<mwMode, mwFault, keepOpen, selfClient, selfServer, selfSsl,
                   selfServerInfo, kind, hs, dw, connectVars, relayVars, hk,
                   lastChain, faults>>

\* ---------------------------------------------------- client_disconnect
\* writer.wait_closed() raises when the transport was lost to a fault: the
\* protocol's close waiter then carries the exception.
WaitClosedRaises(T, tr) == T[tr].err

\* writer.wait_closed() returns and the client_disconnected hooks run.
ClientDisconnected(t) ==
    /\ pc[t] = "closing"
    /\ ~WaitClosedRaises(tp, TrC(dw[t]))
    /\ ~HookRaises("client_disconnected")
    /\ hk' = Fired(hk, t, "client_disconnected")
    /\ pc' = [pc EXCEPT ![t] = "done"]
    /\ UNCHANGED <<mwMode, mwFault, keepOpen, selfVars, cause, kind, h11buf, ev, hs, dw, connectVars,
                   relayVars, tp, lastChain, faults>>

\* writer.wait_closed() raises: no hook runs.
ClientDisconnectError(t) ==
    /\ pc[t] = "closing"
    /\ WaitClosedRaises(tp, TrC(dw[t]))
    /\ \E rt \in BOOLEAN : tp' = Crash(tp, t, rt)
    /\ pc' = [pc EXCEPT ![t] = "failed"]
    /\ UNCHANGED <<mwMode, mwFault, keepOpen, selfVars, cause, kind, h11buf, ev, hs, dw,
                   connectVars, relayVars, hk, lastChain, faults>>

\* writer.wait_closed() returns and a client_disconnected hook raises.
ClientDisconnectHookError(t) ==
    /\ pc[t] = "closing"
    /\ ~WaitClosedRaises(tp, TrC(dw[t]))
    /\ HookRaises("client_disconnected")
    /\ \E rt \in BOOLEAN : tp' = Crash(tp, t, rt)
    /\ pc' = [pc EXCEPT ![t] = "failed"]
    /\ cause' = [cause EXCEPT ![t] = "hook"]
    /\ UNCHANGED <<mwMode, mwFault, keepOpen, selfVars, kind, h11buf, ev, hs, dw,
                   connectVars, relayVars, hk, lastChain, faults>>

\* -------------------------------------------------- client_tls_handshake
\* loop.start_tls returns: the client that was told 200 completed the
\* handshake.  client_request then sets self.ssl, empties self.request, takes
\* the destination from the CONNECT target and enters server_connect.
TlsDone(t) ==
    /\ pc[t] = "tls"
    /\ LET c == hs[t]
           info == ConnectTarget(ev[t])
       IN  /\ kind[c] = "connect"
           /\ Writable(tp, TrC(c)) /\ ~tp[TrC(c)].eof /\ ~tp[TrC(c)].tls
           /\ tp' = [tp EXCEPT ![TrC(c)].tls = TRUE,
                               ![TrC(c)].out = @ \o Tunnelled(c)]
           /\ selfClient' = c
           /\ selfServerInfo' = info
           /\ dest' = [dest EXCEPT ![t] = info]
    /\ selfSsl' = TRUE
    /\ selfRequest' = <<>>
    /\ sslArg' = [sslArg EXCEPT ![t] = TRUE]
    /\ attempts' = [attempts EXCEPT ![t] = @ + 1]
    /\ pc' = [pc EXCEPT ![t] = "connecting"]
    /\ UNCHANGED <<mwMode, mwFault, keepOpen, selfServer, cause, kind, h11buf, ev, hs, dw, relayVars,
                   hk, lastChain, faults>>

\* loop.start_tls raises.
TlsFail(t) ==
    /\ pc[t] = "tls"
    /\ \E rt \in BOOLEAN : tp' = Crash(tp, t, rt)
    /\ pc' = [pc EXCEPT ![t] = "failed"]
    /\ cause' = [cause EXCEPT ![t] = "tls"]
    /\ UNCHANGED <<mwMode, mwFault, keepOpen, selfVars, kind, h11buf, ev, hs, dw, connectVars,
                   relayVars, hk, lastChain, faults>>

\* -------------------------------------------------- server_connect, relay
\* A relay that replays the captured request whatever self.ssl is.
ReplayAlways(ssl) == TRUE
\* `if not self.ssl` of relay: the captured request is replayed.
ReplayNeeded(ssl) == ~ssl

\* An event that is set from the start.
SetEvent == TRUE
\* `event = asyncio.Event()`: a new event is not set.
NewEvent == FALSE

\* The tasks with a forward coroutine that has not ended.
Relaying == {u \in Conns : \E f \in Flows : fpc[u][f] \in {"read", "closing"}}

\* asyncio.open_connection returns.  The server_connected hooks run and relay
\* takes self.client and self.server, replays the request and starts the two
\* forward coroutines.
ConnectDone(t) ==
    /\ pc[t] = "connecting"
    /\ Cardinality(Relaying) < MaxRelays
    /\ ~HookRaises("server_connected")
    /\ LET T1 == [tp EXCEPT ![TrS(t)] =
                      [NoTransport EXCEPT !.open = TRUE, !.out = Response(t),
                                          !.tls = sslArg[t], !.dest = dest[t],
                                          !.stay = (keepOpen = "server")]]
       IN  IF ReplayNeeded(selfSsl)
           THEN /\ tp' = Write(T1, TrS(t), selfRequest)
                /\ firstWrite' = [firstWrite EXCEPT ![t] =
                       [started |-> TRUE, replayed |-> TRUE, data |-> selfRequest]]
           ELSE /\ tp' = T1
                /\ firstWrite' = [firstWrite EXCEPT ![t] =
                       [started |-> TRUE, replayed |-> FALSE, data |-> <<>>]]
    /\ selfServer' = t
    /\ hk' = Fired(hk, t, "server_connected")
    /\ rc' = [rc EXCEPT ![t] = selfClient]
    /\ rs' = [rs EXCEPT ![t] = t]
    /\ evSet' = [evSet EXCEPT ![t] = NewEvent]
    /\ fpc' = [fpc EXCEPT ![t] = [f \in Flows |-> "read"]]
    /\ pc' = [pc EXCEPT ![t] = "relay"]
    /\ UNCHANGED <<mwMode, mwFault, keepOpen, selfClient, selfSsl, selfRequest, selfServerInfo,
                   cause, fcause, kind, h11buf, ev, hs, dw, connectVars, lastChain,
                   faults>>

\* The same, but the flush of the replayed request raises: the exception
\* leaves relay before the forward coroutines exist.
ReplayWriteError(t) ==
    /\ pc[t] = "connecting"
    /\ Cardinality(Relaying) < MaxRelays
    /\ ~HookRaises("server_connected")
    /\ ReplayNeeded(selfSsl)
    /\ LET T1 == [tp EXCEPT ![TrS(t)] =
                      [NoTransport EXCEPT !.open = TRUE, !.out = Response(t),
                                          !.tls = sslArg[t], !.dest = dest[t],
                                          !.stay = (keepOpen = "server")]]
       IN  /\ DrainRaises(T1, TrS(t), faults)
           /\ \E rt \in BOOLEAN :
                 tp' = Crash(AfterDrainRaises(Write(T1, TrS(t), selfRequest),
                                              TrS(t)), t, rt)
           /\ faults' = DrainFaultCount(T1, TrS(t), faults)
    /\ firstWrite' = [firstWrite EXCEPT ![t] =
           [started |-> TRUE, replayed |-> TRUE, data |-> selfRequest]]
    /\ selfServer' = t
    /\ hk' = Fired(hk, t, "server_connected")
    /\ rc' = [rc EXCEPT ![t] = selfClient]
    /\ rs' = [rs EXCEPT ![t] = t]
    /\ pc' = [pc EXCEPT ![t] = "failed"]
    /\ cause' = [cause EXCEPT ![t] = "relay"]
    /\ UNCHANGED <<mwMode, mwFault, keepOpen, selfClient, selfSsl, selfRequest, selfServerInfo,
                   fpc, fcause, kind, h11buf, ev, hs, dw, connectVars, lastChain,
                   evSet>>

\* asyncio.open_connection returns and a server_connected hook raises:
\* relay is not reached.
ConnectHookError(t) ==
    /\ pc[t] = "connecting"
    /\ HookRaises("server_connected")
    /\ \E rt \in BOOLEAN :
          tp' = Crash([tp EXCEPT ![TrS(t)] =
                          [NoTransport EXCEPT !.open = TRUE, !.out = Response(t),
                                              !.tls = sslArg[t], !.dest = dest[t],
                                          !.stay = (keepOpen = "server")]],
                      t, rt)
    /\ selfServer' = t
    /\ pc' = [pc EXCEPT ![t] = "failed"]
    /\ cause' = [cause EXCEPT ![t] = "hook"]
    /\ UNCHANGED <<mwMode, mwFault, keepOpen, selfClient, selfSsl, selfRequest,
                   selfServerInfo, kind, h11buf, ev, hs, dw, connectVars,
                   relayVars, hk, lastChain, faults>>

\* asyncio.open_connection raises.
ConnectFail(t) ==
    /\ pc[t] = "connecting"
    /\ \E rt \in BOOLEAN : tp' = Crash(tp, t, rt)
    /\ pc' = [pc EXCEPT ![t] = "failed"]
    /\ cause' = [cause EXCEPT ![t] = "connect"]
    /\ UNCHANGED <<mwMode, mwFault, keepOpen, selfVars, kind, h11buf, ev, hs, dw, connectVars,
                   relayVars, hk, lastChain, faults>>

\* --------------------------------------------------------------- forward
Reader(t, f) == IF f = "CLIENT_TO_SERVER" THEN TrC(rc[t]) ELSE TrS(rs[t])
Writer(t, f) == IF f = "CLIENT_TO_SERVER" THEN TrS(rs[t]) ELSE TrC(rc[t])
DataHook(f) == IF f = "CLIENT_TO_SERVER" THEN "client_data" ELSE "server_data"
GoneHook(f) ==
    IF f = "CLIENT_TO_SERVER" THEN "client_disconnected" ELSE "server_disconnected"
Other(f) == IF f = "CLIENT_TO_SERVER" THEN "SERVER_TO_CLIENT" ELSE "CLIENT_TO_SERVER"

\* `while not event.is_set()`
LoopGoesOn(t) == ~evSet[t]

\* An exception leaves a forward coroutine: asyncio.gather hands it to relay,
\* and from there it leaves client_connect, unless that task is gone already.
\* The sibling coroutine is not cancelled.
RelayRaises(t, T, rt) ==
    /\ tp' = IF pc[t] = "relay" THEN Crash(T, t, rt) ELSE T
    /\ pc' = [pc EXCEPT ![t] = IF @ = "relay" THEN "failed" ELSE @]
    /\ cause' = [cause EXCEPT ![t] = IF pc[t] = "relay" THEN "relay" ELSE @]

\* One round of the loop: a chunk is read, run through the data hooks of the
\* flow, written and flushed.
FwdRelay(t, f) ==
    /\ fpc[t][f] = "read"
    /\ LoopGoesOn(t)
    /\ \E r \in Reads(Reader(t, f)) :
          LET ch == Dispatched(DataHook(f), r.data)
          IN  /\ r.data # <<>>
              /\ ~HookRaises(DataHook(f))
              /\ Writable(r.T, Writer(t, f))
              /\ tp' = Write(r.T, Writer(t, f), ch.kept)
              /\ lastChain' = [lastChain EXCEPT ![t][ch.hook] = ch]
    /\ hk' = Fired(hk, t, DataHook(f))
    /\ UNCHANGED <<mwMode, mwFault, keepOpen, selfVars, pc, cause, kind, h11buf, ev, hs, dw,
                   connectVars, relayVars, faults>>

\* The same round, but the destination transport is down: drain raises.
FwdWriteError(t, f) ==
    /\ fpc[t][f] = "read"
    /\ LoopGoesOn(t)
    /\ \E r \in Reads(Reader(t, f)), rt \in BOOLEAN :
          LET ch == Dispatched(DataHook(f), r.data)
          IN  /\ r.data # <<>>
              /\ ~HookRaises(DataHook(f))
              /\ DrainRaises(r.T, Writer(t, f), faults)
              /\ RelayRaises(t, AfterDrainRaises(Write(r.T, Writer(t, f), ch.kept),
                                                  Writer(t, f)), rt)
              /\ faults' = DrainFaultCount(r.T, Writer(t, f), faults)
              /\ lastChain' = [lastChain EXCEPT ![t][ch.hook] = ch]
    /\ hk' = Fired(hk, t, DataHook(f))
    /\ fpc' = [fpc EXCEPT ![t][f] = "failed"]
    /\ fcause' = [fcause EXCEPT ![t][f] = "write_error"]
    /\ UNCHANGED <<mwMode, mwFault, keepOpen, selfVars, kind, h11buf, ev, hs, dw, connectVars, rc, rs,
                   firstWrite, evSet>>

\* A chunk is read and a data hook of the flow raises: nothing is written.
FwdHookError(t, f) ==
    /\ fpc[t][f] = "read"
    /\ LoopGoesOn(t)
    /\ HookRaises(DataHook(f))
    /\ \E r \in Reads(Reader(t, f)), rt \in BOOLEAN :
          /\ r.data # <<>>
          /\ RelayRaises(t, r.T, rt)
    /\ fpc' = [fpc EXCEPT ![t][f] = "failed"]
    /\ fcause' = [fcause EXCEPT ![t][f] = "hook_error"]
    /\ UNCHANGED <<mwMode, mwFault, keepOpen, selfVars, kind, h11buf, ev, hs, dw,
                   connectVars, rc, rs, firstWrite, evSet, hk, lastChain, faults>>

\* reader.read raises.
FwdReadError(t, f) ==
    /\ fpc[t][f] = "read"
    /\ LoopGoesOn(t)
    /\ ReadRaises(tp, Reader(t, f), faults)
    /\ \E rt \in BOOLEAN : RelayRaises(t, Fault(tp, Reader(t, f)), rt)
    /\ faults' = FaultCount(tp, Reader(t, f), faults)
    /\ fpc' = [fpc EXCEPT ![t][f] = "failed"]
    /\ fcause' = [fcause EXCEPT ![t][f] = "read_error"]
    /\ UNCHANGED <<mwMode, mwFault, keepOpen, selfVars, kind, h11buf, ev, hs, dw, connectVars, rc, rs,
                   firstWrite, evSet, hk, lastChain>>

\* The read returns b"": the loop is left and writer.close() is called.
FwdEof(t, f) ==
    /\ fpc[t][f] = "read"
    /\ LoopGoesOn(t)
    /\ ReadIsEof(tp, Reader(t, f))
    /\ tp' = Close(SeeEof(tp, Reader(t, f)), Writer(t, f))
    /\ fpc' = [fpc EXCEPT ![t][f] = "closing"]
    /\ fcause' = [fcause EXCEPT ![t][f] = "eof"]
    /\ UNCHANGED <<mwMode, mwFault, keepOpen, selfVars, pc, cause, kind, h11buf, ev, hs, dw,
                   connectVars, rc, rs, firstWrite, evSet, hk, lastChain, faults>>

\* writer.wait_closed() returns and the disconnected hooks of the flow run.
\* When the sibling has returned too, gather and relay return.
FwdClosed(t, f) ==
    /\ fpc[t][f] = "closing"
    /\ ~WaitClosedRaises(tp, Writer(t, f))
    /\ ~HookRaises(GoneHook(f))
    /\ hk' = Fired(hk, t, GoneHook(f))
    /\ fpc' = [fpc EXCEPT ![t][f] = "done"]
    /\ pc' = [pc EXCEPT ![t] =
                 IF @ = "relay" /\ fpc[t][Other(f)] = "done" THEN "done" ELSE @]
    /\ UNCHANGED <<mwMode, mwFault, keepOpen, selfVars, cause, fcause, kind, h11buf, ev, hs, dw,
                   connectVars, rc, rs, firstWrite, evSet, tp, lastChain, faults>>

\* writer.wait_closed() raises: the disconnected hooks of the flow do not run.
FwdCloseError(t, f) ==
    /\ fpc[t][f] = "closing"
    /\ WaitClosedRaises(tp, Writer(t, f))
    /\ \E rt \in BOOLEAN : RelayRaises(t, tp, rt)
    /\ fpc' = [fpc EXCEPT ![t][f] = "failed"]
    /\ fcause' = [fcause EXCEPT ![t][f] = "close_error"]
    /\ UNCHANGED <<mwMode, mwFault, keepOpen, selfVars, kind, h11buf, ev, hs, dw, connectVars, rc,
                   rs, firstWrite, evSet, hk, lastChain, faults>>

\* writer.wait_closed() returns and a disconnected hook of the flow raises.
FwdGoneHookError(t, f) ==
    /\ fpc[t][f] = "closing"
    /\ ~WaitClosedRaises(tp, Writer(t, f))
    /\ HookRaises(GoneHook(f))
    /\ \E rt \in BOOLEAN : RelayRaises(t, tp, rt)
    /\ fpc' = [fpc EXCEPT ![t][f] = "failed"]
    /\ fcause' = [fcause EXCEPT ![t][f] = "hook_error"]
    /\ UNCHANGED <<mwMode, mwFault, keepOpen, selfVars, kind, h11buf, ev, hs, dw,
                   connectVars, rc, rs, firstWrite, evSet, hk, lastChain, faults>>

\* ------------------------------------------------------------------ Next
Next ==
    \/ \E t \in Conns : Accept(t)
    \/ \E t \in Conns : AcceptHookError(t)
    \/ \E t \in Conns : ReadNeedData(t)
    \/ \E t \in Conns : ReadMalformed(t)
    \/ \E t \in Conns : ReadRequestError(t)
    \/ \E t \in Conns : RequestConnect(t)
    \/ \E t \in Conns : RequestConnectWriteError(t)
    \/ \E t \in Conns : RequestPlain(t)
    \/ \E t \in Conns : RequestNoHost(t)
    \/ \E t \in Conns : RequestClosed(t)
    \/ \E t \in Conns : RequestHookError(t)
    \/ \E t \in Conns : ClientDisconnected(t)
    \/ \E t \in Conns : ClientDisconnectError(t)
    \/ \E t \in Conns : ClientDisconnectHookError(t)
    \/ \E t \in Conns : TlsDone(t)
    \/ \E t \in Conns : TlsFail(t)
    \/ \E t \in Conns : ConnectDone(t)
    \/ \E t \in Conns : ReplayWriteError(t)
    \/ \E t \in Conns : ConnectHookError(t)
    \/ \E t \in Conns : ConnectFail(t)
    \/ \E t \in Conns, f \in Flows : FwdRelay(t, f)
    \/ \E t \in Conns, f \in Flows : FwdWriteError(t, f)
    \/ \E t \in Conns, f \in Flows : FwdHookError(t, f)
    \/ \E t \in Conns, f \in Flows : FwdReadError(t, f)
    \/ \E t \in Conns, f \in Flows : FwdEof(t, f)
    \/ \E t \in Conns, f \in Flows : FwdClosed(t, f)
    \/ \E t \in Conns, f \in Flows : FwdCloseError(t, f)
    \/ \E t \in Conns, f \in Flows : FwdGoneHookError(t, f)

Spec == Init /\ [][Next]_vars

\* --------------------------------------------- runs without I/O errors
\* No peer resets a transport and no middleware hook raises.
InitQuiet == Start(MaxFaults) /\ mwFault = "none"

\* The steps of the forward coroutine of flow f of task t.
Forward(t, f) ==
    \/ FwdRelay(t, f)
    \/ FwdWriteError(t, f)
    \/ FwdEof(t, f)
    \/ FwdClosed(t, f)

\* The steps that can be taken then: a read or a close never raises, and a
\* flush raises only on a transport that is closed or shut down already.
NextQuiet ==
    \/ \E t \in Conns : Accept(t)
    \/ \E t \in Conns : ReadNeedData(t)
    \/ \E t \in Conns : ReadMalformed(t)
    \/ \E t \in Conns : RequestConnect(t)
    \/ \E t \in Conns : RequestConnectWriteError(t)
    \/ \E t \in Conns : RequestPlain(t)
    \/ \E t \in Conns : RequestNoHost(t)
    \/ \E t \in Conns : RequestClosed(t)
    \/ \E t \in Conns : ClientDisconnected(t)
    \/ \E t \in Conns : TlsDone(t)
    \/ \E t \in Conns : TlsFail(t)
    \/ \E t \in Conns : ConnectDone(t)
    \/ \E t \in Conns : ConnectFail(t)
    \/ \E t \in Conns, f \in Flows : FwdRelay(t, f)
    \/ \E t \in Conns, f \in Flows : FwdWriteError(t, f)
    \/ \E t \in Conns, f \in Flows : FwdEof(t, f)
    \/ \E t \in Conns, f \in Flows : FwdClosed(t, f)

\* The event loop runs every coroutine whose awaited read, flush or close has
\* completed: a forward coroutine that can take a step eventually takes one.
Fairness == \A t \in Conns, f \in Flows : WF_vars(Forward(t, f))

FairSpec == InitQuiet /\ [][NextQuiet]_vars /\ Fairness

\* ================================================================ claims
Range(q) == {q[i] : i \in 1..Len(q)}
C2S == "CLIENT_TO_SERVER"
S2C == "SERVER_TO_CLIENT"

\* The task and its forward coroutines have all ended.
Ended(t) ==
    /\ pc[t] \in {"done", "failed"}
    /\ \A f \in Flows : fpc[t][f] \notin {"read", "closing"}

\* The bytes of a sequence that a peer or the proxy produced, as opposed to
\* the marks the tagging middlewares add.
Payload(q) == {x \in Range(q) : x[1] \notin DataHooks}

\* C1: half-duplex termination.  When the server-to-client loop has ended on
\* an empty read, the client-to-server loop leaves on an empty read only once
\* the client itself has closed, that is, has nothing left to send.
HalfDuplexTermination ==
    \A t \in Conns :
        (fcause[t][S2C] = "eof" /\ fcause[t][C2S] = "eof")
            => tp[TrC(rc[t])].out = <<>>

\* C2: no connection touches the state of another.  The transports a task
\* hands to its TLS handshake and to its relay are those of its own client,
\* and every byte written to a connection's client or upstream server was
\* produced by that connection's own peers or task.
NoCrossConnectionState ==
    \A t \in Conns :
        /\ pc[t] = "tls" => hs[t] = t
        /\ firstWrite[t].started => rc[t] = t
        /\ \A x \in Payload(tp[TrC(t)].wr) \cup Payload(tp[TrS(t)].wr) : x[2] = t

ResolutionFailures == {"malformed", "closed_early", "no_host"}

\* C3: a connection whose initial request could not be resolved ends with its
\* client transport closed and without any upstream connection attempt.
ResolutionFailureAborts ==
    \A t \in Conns :
        (cause[t] \in ResolutionFailures /\ pc[t] \in {"done", "failed"})
            => (tp[TrC(t)].closed /\ attempts[t] = 0)

\* C4: however a connection ends, the client_disconnected hooks and the
\* server_disconnected hooks have each been dispatched exactly once for it.
DisconnectHooksOnce ==
    \A t \in Conns :
        Ended(t) => /\ hk[t].client_disconnected = 1
                    /\ hk[t].server_disconnected = 1

PlainWithHost(t) ==
    ev[t].type = "Request" /\ ev[t].method = "GET" /\ ev[t].host # 0

\* C5: for a plain request with a Host header the destination is (host, 80)
\* and, with no-op middlewares, what relay writes to the server before the
\* forward loops start is exactly what was read from that client during
\* resolution.
PlainReplayExact ==
    \A t \in Conns :
        (mwMode = "noop" /\ PlainWithHost(t))
            => /\ attempts[t] > 0 => dest[t] = <<ev[t].host, HTTP_PORT>>
               /\ firstWrite[t].started =>
                     (firstWrite[t].replayed /\ firstWrite[t].data = h11buf[t])

IsConnect(t) == ev[t].type = "Request" /\ ev[t].method = "CONNECT"

ConnectKept ==
    \A t \in Conns :
        IsConnect(t)
            => /\ attempts[t] > 0 => dest[t] = <<t, TargetPort(t)>>
               /\ firstWrite[t].started => ~firstWrite[t].replayed
               /\ Range(tp[TrS(t)].wr) \cap Range(h11buf[t]) = {}

\* The step that ends the TLS upgrade leaves self.request empty and self.ssl
\* set.
ConnectCleared ==
    \A t \in Conns :
        (pc[t] = "tls" /\ pc'[t] = "connecting") => (selfRequest' = <<>> /\ selfSsl')

\* C6: for a CONNECT request the destination is the (host, port) of its
\* target, the request buffer is cleared, relay skips the initial replay, and
\* no byte captured during resolution is written to that connection's server.
ConnectNotForwarded == []ConnectKept /\ [][ConnectCleared]_vars

\* A CONNECT connection has relayed tunnelled bytes to its server and ended.
ConnectRelayed ==
    \E t \in Conns :
        /\ IsConnect(t) /\ pc[t] = "done"
        /\ tp[TrS(t)].wr # <<>>
        /\ tp[TrS(t)].dest = <<t, TargetPort(t)>>

\* C7: the upstream connection is opened with TLS exactly when the
\* connection's own client leg was upgraded to TLS, and to the destination
\* named by the connection's own first request.
OwnDestination(t) ==
    IF ev[t].method = "CONNECT" THEN <<t, TargetPort(t)>>
    ELSE <<ev[t].host, HTTP_PORT>>

UpstreamTlsMirrorsClient ==
    \A t \in Conns :
        attempts[t] > 0 => /\ sslArg[t] <=> tp[TrC(t)].tls
                           /\ dest[t] = OwnDestination(t)

ChainShape ==
    \A t \in Conns, h \in DataHooks :
        LET ch == lastChain[t][h]
        IN  ch.hook # "none" =>
              /\ Len(ch.trace) = NMid
              /\ \A k \in 1..Len(ch.trace) :
                    /\ ch.trace[k].mw = k
                    /\ ch.trace[k].inp =
                          (IF k = 1 THEN ch.inp ELSE ch.trace[k - 1].out)
                    /\ ch.trace[k].out = MwData(h, k, ch.trace[k].inp)
              /\ ch.kept = (IF NMid = 0 THEN ch.inp ELSE ch.trace[NMid].out)

ReadNow(tr) == SubSeq(tp'[tr].rd, Len(tp[tr].rd) + 1, Len(tp'[tr].rd))
WrittenNow(tr) == SubSeq(tp'[tr].wr, Len(tp[tr].wr) + 1, Len(tp'[tr].wr))

\* A step that dispatches a data hook feeds it what the step read (appended to
\* self.request during capture) and keeps or writes what the dispatch returns.
ChainStep ==
    \A t \in Conns :
        /\ hk'[t].client_data # hk[t].client_data =>
              LET ch == lastChain'[t]["client_data"]
              IN  IF pc[t] = "request"
                  THEN /\ ch.inp = selfRequest \o ReadNow(TrC(t))
                       /\ selfRequest' = ch.kept
                  ELSE /\ ch.inp = ReadNow(Reader(t, C2S))
                       /\ WrittenNow(Writer(t, C2S)) = ch.kept
        /\ hk'[t].server_data # hk[t].server_data =>
              LET ch == lastChain'[t]["server_data"]
              IN  /\ ch.inp = ReadNow(Reader(t, S2C))
                  /\ WrittenNow(Writer(t, S2C)) = ch.kept

\* C8: every dispatch of a data hook calls each of the NMid middlewares exactly
\* once, in registration order, each on the output of the one before it, and
\* what is kept (in self.request or for the write) is the last one's output.
ChainComposition == []ChainShape /\ [][ChainStep]_vars

\* Tagging middlewares have seen a captured request, a relayed client chunk
\* and a relayed server chunk of one connection.
ChainExercised ==
    \E t \in Conns :
        /\ mwMode = "tag"
        /\ hk[t].client_data >= 2 /\ hk[t].server_data >= 1
        /\ Len(lastChain[t]["client_data"].trace) = NMid

\* What the proxy read from the client of connection t for the server: all of
\* it for a plain request, what came through the tunnel for CONNECT.
ClientBytes(t) ==
    LET rd == tp[TrC(t)].rd
    IN  IF ev[t].method = "CONNECT"
        THEN SubSeq(rd, Len(h11buf[t]) + 1, Len(rd))
        ELSE rd
\* What the proxy wrote to the client of connection t on behalf of the server.
ServerBytes(t) ==
    LET wr == tp[TrC(t)].wr
    IN  IF ev[t].method = "CONNECT" THEN SubSeq(wr, 2, Len(wr)) ELSE wr

\* C9: with no-op middlewares the bytes written to the server are the bytes
\* read from the client and the bytes written to the client are the bytes
\* read from the server, in the same order.
RoundTrip ==
    mwMode = "noop" =>
        \A t \in Conns :
            tp[TrS(t)].open => /\ tp[TrS(t)].wr = ClientBytes(t)
                               /\ ServerBytes(t) = tp[TrS(t)].rd

\* C10: a forward loop whose write or flush failed has closed its writer, and
\* relay has not failed.
WriteErrorEndsLoopOnly ==
    \A t \in Conns, f \in Flows :
        fcause[t][f] = "write_error"
            => (tp[Writer(t, f)].closed /\ cause[t] # "relay")

\* C11: a task whose upstream connection could not be opened has its client
\* transport closed, never started relay, and called open_connection exactly
\* once.
ConnectFailureTearsDown ==
    \A t \in Conns :
        cause[t] = "connect"
            => /\ tp[TrC(t)].closed
               /\ ~firstWrite[t].started
               /\ attempts[t] = 1

\* A middleware hook raised in task t or in one of its forward coroutines.
HookFault(t) ==
    cause[t] = "hook" \/ \E f \in Flows : fcause[t][f] = "hook_error"

\* C12: a fault raised by a middleware hook leads to the teardown of the
\* connection: once the task and its forward coroutines have ended, the
\* connection's client transport, and its server transport when it was
\* opened, are closed.
HookFaultTearsDown ==
    \A t \in Conns :
        (HookFault(t) /\ Ended(t))
            => /\ tp[TrC(t)].closed
               /\ tp[TrS(t)].open => tp[TrS(t)].closed

BufferedOf(t) == {x \in Payload(selfRequest) : x[2] = t}

\* C14: self.request is empty until a client has been accepted, and holds
\* nothing received from a connection's client before that connection is
\* accepted or once that connection's forward loops are running.
RequestBufferInvariant ==
    /\ (\A t \in Conns : pc[t] = "idle") => selfRequest = <<>>
    /\ \A t \in Conns :
          (pc[t] = "idle" \/ \E f \in Flows : fpc[t][f] = "read")
              => BufferedOf(t) = {}

\* A step of request capture that reads a chunk from the client dispatches
\* client_data on that chunk and appends what the dispatch returns to
\* self.request.
CaptureStep ==
    \A t \in Conns :
        (h11buf'[t] # h11buf[t] /\ ~HookRaises("client_data")) =>
            LET chunk == SubSeq(h11buf'[t], Len(h11buf[t]) + 1, Len(h11buf'[t]))
                ch == lastChain'[t]["client_data"]
            IN  /\ hk'[t].client_data = hk[t].client_data + 1
                /\ ch.inp = chunk
                /\ selfRequest' = selfRequest \o ch.kept

\* C15: during request capture every chunk read from the client goes through
\* the client_data hooks before it is retained, the hooks' output is what is
\* retained, and a request read in k chunks causes k dispatches.
CapturePerChunk == [][CaptureStep]_vars

\* The forward coroutine of flow f of task t has not returned or raised yet.
Running(t, f) == fpc[t][f] \in {"read", "closing"}

\* relay has returned only when both of its forward coroutines have.
RelayReturnsLast ==
    \A t \in Conns :
        (firstWrite[t].started /\ pc[t] = "done")
            => \A f \in Flows : ~Running(t, f)

\* A forward coroutine that calls writer.close() does so when its sibling is
\* no longer running.
ForwardCloseStep ==
    \A t \in Conns, f \in Flows :
        (fpc[t][f] = "read" /\ fpc'[t][f] = "closing")
            => /\ tp'[Writer(t, f)].closed
               /\ ~Running(t, Other(f))

\* C16: neither transport of a relay is closed while the other forward
\* coroutine is still running, and relay returns only after both have ended.
ReleasedAfterBothLoops == []RelayReturnsLast /\ [][ForwardCloseStep]_vars

\* C17: a task in the TLS handshake of its CONNECT client has written the 200
\* response to that client; self.ssl is set only once some handshake has
\* succeeded; and a client whose first request is not CONNECT is written
\* nothing before its relay starts.
OkBeforeHandshake ==
    /\ \A t \in Conns :
          /\ pc[t] = "tls" => OK200(t)[1] \in Range(tp[TrC(t)].wr)
          /\ (pc[t] \in {"request", "connecting"} /\ ev[t].method # "CONNECT")
                => tp[TrC(t)].wr = <<>>
    /\ selfSsl => \E t \in Conns : \E u \in Conns : hs[t] = u /\ tp[TrC(u)].tls

LoopExits == {"eof", "read_error", "hook_error", "write_error"}

\* A forward coroutine leaves its read loop in a step of its own: its read
\* returned b"", or its read, a data hook or its write raised.
OwnExitStep ==
    \A t \in Conns, f \in Flows :
        (fpc[t][f] = "read" /\ fpc'[t][f] # "read")
            => /\ fcause'[t][f] \in LoopExits
               /\ fcause'[t][f] = "eof" => ReadIsEof(tp, Reader(t, f))
               /\ fcause'[t][f] = "read_error" => ReadRaises(tp, Reader(t, f), faults)
               /\ fcause'[t][f] = "hook_error" => HookRaises(DataHook(f))
               /\ fpc'[t][Other(f)] = fpc[t][Other(f)]

EventNeverSet == \A t \in Conns : ~evSet[t]

\* C18: the event handed to the forward coroutines is never set, and a
\* forward coroutine leaves its read loop only in a step of its own, on an
\* empty read or on an exception of its read, hook or write; such a step
\* leaves the sibling coroutine where it was.
NoOutsideCancel == []EventNeverSet /\ [][OwnExitStep]_vars

\* A forward coroutine has raised, its task has failed, and its sibling is
\* still at its read.
SiblingOutlivesFailure ==
    \E t \in Conns, f \in Flows :
        /\ fpc[t][f] = "failed" /\ pc[t] = "failed"
        /\ fpc[t][Other(f)] = "read"
        /\ ~evSet[t]

\* The step in which the 200 response or the TLS handshake of a task fails
\* leaves self.ssl and self.server_info as they were.
HandshakeFailureStep ==
    \A t \in Conns :
        (cause[t] # "tls" /\ cause'[t] = "tls")
            => UNCHANGED <<selfSsl, selfServerInfo, selfServer>>

HandshakeGate ==
    /\ \A t \in Conns :
          /\ (ev[t].method = "CONNECT" /\ attempts[t] > 0)
                => /\ tp[TrC(hs[t])].tls
                   /\ OK200(t)[1] \in Range(tp[TrC(hs[t])].wr)
          /\ cause[t] = "tls"
                => /\ attempts[t] = 0 /\ dest[t] = <<0, 0>>
                   /\ ~tp[TrS(t)].open
                   /\ hk[t].server_connected = 0 /\ hk[t].server_data = 0
                   /\ ~firstWrite[t].started
                   /\ \A f \in Flows : fpc[t][f] = "none"
    /\ selfSsl => \E t \in Conns : ev[t].method = "CONNECT" /\ attempts[t] > 0

Faulted(t) == \E f \in Flows : fpc[t][f] = "failed"

\* relay has returned: both forward coroutines have returned, both writers
\* are closed and both disconnected hooks have been dispatched.
CleanEnd(t) ==
    /\ pc[t] = "done"
    /\ \A f \in Flows :
          /\ fpc[t][f] = "done" /\ fcause[t][f] = "eof"
          /\ tp[Writer(t, f)].closed
          /\ hk[t][GoneHook(f)] = 1

\* C19: under weak fairness of the forward coroutines, once one forward loop
\* of a relay has read end-of-stream, either a forward coroutine of the relay
\* raises or both loops end, both writers are closed, both disconnected hooks
\* are dispatched and relay returns, even when the other peer never closes.
CoTermination ==
    \A t \in Conns :
        (\E f \in Flows : fcause[t][f] = "eof") ~> (CleanEnd(t) \/ Faulted(t))

\* A relay has returned although the peers of one side never close.
CoTerminated ==
    \E t \in Conns : CleanEnd(t) /\ keepOpen # "none" /\ rc[t] = t
====
